---- MODULE Spec2Model ----
(***************************************************************************)
(* A model of translate_ppt_deepl_app.py: the Streamlit script that        *)
(* translates the text runs of a PowerPoint deck, or the markdown cells    *)
(* and code comments of a Jupyter notebook, through the DeepL API.         *)
(*                                                                         *)
(* A text is a sequence of one-character strings.  Offsets and slices are  *)
(* Python's: 0-based, half-open, clamped to the length.                    *)
(***************************************************************************)
EXTENDS Integers, Sequences, FiniteSets, TLC

VARIABLES
    page,               \* st.sidebar.selectbox: "PowerPoint" | "Jupyter Notebook"
    has_key,            \* DEEPL_API_KEY is set
    upload,             \* the uploaded file: [suffix, slides, cells]
    include_notes,      \* st.checkbox "Traduire les notes des diapositives"
    pc,                 \* position of the script
    in_suffix,          \* in_path.suffix
    conv,               \* what the soffice run did ("not_run" before it)
    prs,                \* the loaded presentation: its slides
    run_text,           \* run id -> run.text of the loaded presentation
    run_refs,           \* process_powerpoint_file.run_refs
    notebook,           \* the loaded notebook: its cells
    texts_to_translate, \* process_jupyter_notebook.texts_to_translate
    text_refs,          \* process_jupyter_notebook.text_refs
    translated_texts,   \* process_jupyter_notebook.translated_texts
    start,              \* the batch loop's index
    calls,              \* the requests posted to DeepL, with what came back
    out_file,           \* out_file on disk: "none" | "written" | "incomplete"
    ui                  \* the st.* messages shown, in order

vars == <<page, has_key, upload, include_notes, pc, in_suffix, conv, prs,
          run_text, run_refs, notebook, texts_to_translate, text_refs,
          translated_texts, start, calls, out_file, ui>>

(***************************************************************************)
(* Bounds of the model.                                                    *)
(***************************************************************************)
\* Flat documents (one run, or one markdown cell, per unit) hold up to this
\* many units: two full batches and one more.
MaxFlat == 91
\* Decks of the shape families hold up to this many slides.
MaxSlides == 2
\* Every cell source over Alphabet up to this length is a notebook.
MaxSrcLen == 5
\* Notebooks built from SampleSources hold up to this many cells.
MaxCells == 2

BATCH_SIZE == 45

(***************************************************************************)
(* Python's str and list operations.                                       *)
(***************************************************************************)
Min(a, b) == IF a < b THEN a ELSE b

\* s[a:b]
Slice(s, a, b) == SubSeq(s, a + 1, Min(b, Len(s)))

\* s[a:]
SliceFrom(s, a) == Slice(s, a, Len(s))

\* str.isspace of one character
IsSpace(c) == c \in {" ", "\n", "\t", "\r"}

RECURSIVE LStrip(_)
LStrip(s) ==
    IF s = <<>> THEN s
    ELSE IF IsSpace(Head(s)) THEN LStrip(Tail(s)) ELSE s

RECURSIVE RStrip(_)
RStrip(s) ==
    IF s = <<>> THEN s
    ELSE IF IsSpace(s[Len(s)]) THEN RStrip(SubSeq(s, 1, Len(s) - 1)) ELSE s

\* str.strip()
Strip(s) == RStrip(LStrip(s))

\* str.find(c): the 0-based index of the first c, or -1
Find(s, c) ==
    IF \E i \in 1..Len(s) : s[i] = c
    THEN (CHOOSE i \in 1..Len(s) : s[i] = c /\ \A j \in 1..(i - 1) : s[j] # c) - 1
    ELSE -1

\* str.split('\n')
RECURSIVE SplitLines(_)
SplitLines(s) ==
    LET i == Find(s, "\n")
    IN  IF i = -1 THEN <<s>>
        ELSE <<Slice(s, 0, i)>> \o SplitLines(SliceFrom(s, i + 1))

\* zip(a, b): its length
ZipLen(a, b) == Min(Len(a), Len(b))

\* range(0, total, BATCH_SIZE): the index after `s`
NextStart(s) == s + BATCH_SIZE

\* seq[start:start + BATCH_SIZE]
BatchOfOneTooMany(seq, s) == Slice(seq, s, s + BATCH_SIZE + 1)
BatchOf(seq, s) == Slice(seq, s, s + BATCH_SIZE)

(***************************************************************************)
(* The DeepL service and deepl_translate_batch.                            *)
(***************************************************************************)
Upper(c) == IF c = "a" THEN "A" ELSE IF c = "b" THEN "B" ELSE c

\* What the service answers for one text: the text in upper case, of the
\* same length or one character longer.
Modes == {"same", "longer"}
TranslateText(t, mode) ==
    [i \in 1..Len(t) |-> Upper(t[i])] \o (IF mode = "longer" THEN <<"Z">> ELSE <<>>)

Entry(t) == [has_text |-> TRUE, text |-> t]

FullBody(texts, mode) ==
    [has_translations |-> TRUE,
     translations |-> [i \in 1..Len(texts) |-> Entry(TranslateText(texts[i], mode))]]

\* Every response the service is taken to send to a request of `texts`: a
\* success whose body holds one translation per text, one fewer, one more,
\* an entry without "text", or no "translations" at all; an HTTP error
\* status; a transport failure.
Responses(texts) ==
    {[kind |-> "ok", body |-> FullBody(texts, m)] : m \in Modes}
    \cup {[kind |-> "ok",
           body |-> [has_translations |-> TRUE,
                     translations |-> SubSeq(FullBody(texts, "same").translations,
                                             1, Len(texts) - 1)]],
          [kind |-> "ok",
           body |-> [has_translations |-> TRUE,
                     translations |-> Append(FullBody(texts, "same").translations,
                                             Entry(<<"Z">>))]],
          [kind |-> "ok",
           body |-> [has_translations |-> TRUE,
                     translations |-> [i \in 1..Len(texts) |->
                         IF i = 1 THEN [has_text |-> FALSE, text |-> <<>>]
                         ELSE Entry(TranslateText(texts[i], "same"))]]],
          [kind |-> "ok", body |-> [has_translations |-> FALSE, translations |-> <<>>]],
          [kind |-> "http_error", body |-> [has_translations |-> FALSE, translations |-> <<>>]],
          [kind |-> "transport_error", body |-> [has_translations |-> FALSE, translations |-> <<>>]]}

\* js.get("translations", []) and t.get("text", "")
ReturnedTexts(body) ==
    LET translations == IF body.has_translations THEN body.translations ELSE <<>>
    IN  [i \in 1..Len(translations) |->
            IF translations[i].has_text THEN translations[i].text ELSE <<>>]

\* deepl_translate_batch(texts) when the service answers `resp`:
\* posted: a request was sent; raised: the call raised; value: what it returned;
\* error: the st.error it showed.  A body that is not JSON raises as a
\* transport failure does.
DeeplSwallowingErrors(texts, resp) ==
    IF texts = <<>>
    THEN [posted |-> FALSE, raised |-> FALSE, value |-> <<>>, error |-> "none"]
    ELSE IF resp.kind = "http_error"
    THEN [posted |-> TRUE, raised |-> FALSE, value |-> <<>>, error |-> "error_deepl_http"]
    ELSE IF resp.kind = "transport_error"
    THEN [posted |-> TRUE, raised |-> FALSE, value |-> <<>>, error |-> "error_deepl_connection"]
    ELSE [posted |-> TRUE, raised |-> FALSE, value |-> ReturnedTexts(resp.body), error |-> "none"]
deepl_translate_batch(texts, resp) ==
    IF texts = <<>>
    THEN [posted |-> FALSE, raised |-> FALSE, value |-> <<>>, error |-> "none"]
    ELSE IF resp.kind = "http_error"
    THEN [posted |-> TRUE, raised |-> TRUE, value |-> <<>>, error |-> "error_deepl_http"]
    ELSE IF resp.kind = "transport_error"
    THEN [posted |-> TRUE, raised |-> TRUE, value |-> <<>>, error |-> "error_deepl_connection"]
    ELSE [posted |-> TRUE, raised |-> FALSE, value |-> ReturnedTexts(resp.body), error |-> "none"]

\* One entry of `calls`: the texts posted, the kind of response the service
\* gave, and what deepl_translate_batch returned.
Call(texts, resp, r) ==
    [texts |-> texts, kind |-> resp.kind, raised |-> r.raised, value |-> r.value]

(***************************************************************************)
(* A presentation as python-pptx hands it over.                            *)
(*   run:        [id, text]                                                *)
(*   text frame: a sequence of paragraphs, each a sequence of runs         *)
(*   shape:      [kind, shapes, has_table, raises, rows, has_text_frame,   *)
(*                text_frame]; has_table and has_text_frame are FALSE when *)
(*                the shape lacks the attribute (or text_frame is None);   *)
(*                rows holds the table's cells, each [has_text_frame,      *)
(*                text_frame]; raises = k > 0 when iterating the table     *)
(*                raises ValueError or AttributeError on reaching its k-th *)
(*                cell (row by row)                                        *)
(*   slide:      [shapes, has_notes_slide, notes_shapes]                   *)
(***************************************************************************)
RECURSIVE Concat(_)
Concat(seqs) == IF seqs = <<>> THEN <<>> ELSE Head(seqs) \o Concat(Tail(seqs))

\* for para in tf.paragraphs: for run in para.runs
RunsOfFrame(tf) == Concat(tf)

RunsOfFrames(frames) == Concat([i \in 1..Len(frames) |-> RunsOfFrame(frames[i])])

\* for row in shape.table.rows: for cell in row.cells
CellsOf(shape) == Concat(shape.rows)

CellFrames(cells) ==
    LET kept == SelectSeq(cells, LAMBDA c : c.has_text_frame)
    IN  [i \in 1..Len(kept) |-> kept[i].text_frame]

\* The shape's own text container, if it exposes one.
OwnFrame(shape) == IF shape.has_text_frame THEN <<shape.text_frame>> ELSE <<>>

\* iter_text_frames(shape): the text frames it yields, in order.
RECURSIVE iter_text_frames(_)
iter_text_frames(shape) ==
    IF shape.kind = "group"
    THEN Concat([i \in 1..Len(shape.shapes) |-> iter_text_frames(shape.shapes[i])])
    ELSE IF shape.has_table
    THEN IF shape.raises = 0
         THEN CellFrames(CellsOf(shape))
         ELSE \* the cells before the failing one were yielded; the handler
              \* passes, and control falls to the text_frame test
              CellFrames(SubSeq(CellsOf(shape), 1, shape.raises - 1)) \o OwnFrame(shape)
    ELSE OwnFrame(shape)

\* txt is not None and txt.strip() != ""
IsTranslatable(txt) == Strip(txt) # <<>>

\* The (run, txt) pairs of the translatable runs among `runs`, read from `text`.
RefsOfRuns(runs, text) ==
    LET kept == SelectSeq(runs, LAMBDA r : IsTranslatable(text[r.id]))
    IN  [i \in 1..Len(kept) |-> [run |-> kept[i].id, txt |-> text[kept[i].id]]]

\* Lines 152-158: the slide's shapes through iter_text_frames.
SlideRefs(slide, text) ==
    RefsOfRuns(RunsOfFrames(Concat([i \in 1..Len(slide.shapes) |->
                                        iter_text_frames(slide.shapes[i])])), text)

\* Lines 161-170: the notes page's shapes, each by its own text_frame only.
NotesRefs(slide, notes, text) ==
    IF notes /\ slide.has_notes_slide
    THEN RefsOfRuns(RunsOfFrames(Concat([i \in 1..Len(slide.notes_shapes) |->
                                            OwnFrame(slide.notes_shapes[i])])), text)
    ELSE <<>>

\* Lines 149-170: run_refs after the collection loop.
CollectRunRefs(slides, notes, text) ==
    Concat([i \in 1..Len(slides) |->
               SlideRefs(slides[i], text) \o NotesRefs(slides[i], notes, text)])

\* Every run of a shape, wherever it sits: what Presentation() loads.
RECURSIVE RunsOfShape(_)
RunsOfShape(shape) ==
    Concat([i \in 1..Len(shape.shapes) |-> RunsOfShape(shape.shapes[i])])
    \o RunsOfFrames(CellFrames(CellsOf(shape)))
    \o RunsOfFrames(OwnFrame(shape))

RunsOfShapes(shapes) == Concat([i \in 1..Len(shapes) |-> RunsOfShape(shapes[i])])

RunsOfDeck(slides) ==
    Concat([i \in 1..Len(slides) |->
               RunsOfShapes(slides[i].shapes) \o RunsOfShapes(slides[i].notes_shapes)])

\* Presentation(str(in_path)): each run's text.
LoadedText(slides) ==
    LET runs == RunsOfDeck(slides)
    IN  [id \in {runs[i].id : i \in 1..Len(runs)} |->
            (CHOOSE r \in {runs[i] : i \in 1..Len(runs)} : r.id = id).text]

\* Lines 185-186: for (run, _orig), new_txt in zip(batch_refs, translated):
\* run.text = new_txt
WriteRuns(text, batch_refs, translated) ==
    [id \in DOMAIN text |->
        IF \E i \in 1..ZipLen(batch_refs, translated) : batch_refs[i].run = id
        THEN translated[CHOOSE i \in 1..ZipLen(batch_refs, translated) :
                            batch_refs[i].run = id]
        ELSE text[id]]

(***************************************************************************)
(* A notebook: its cells, each [cell_type, source].                        *)
(***************************************************************************)
\* sum(len(lines[j]) + 1 for j in range(i)), i 0-based
RECURSIVE LineOffset(_, _)
LineOffset(lines, i) ==
    IF i = 0 THEN 0 ELSE LineOffset(lines, i - 1) + Len(lines[i]) + 1

\* The comment of the line at 0-based index i, as a list of zero or one
\* [text, start, end_].
CommentOfLine(lines, i) ==
    LET line == lines[i + 1]
        comment_start == Find(line, "#")
        comment_text == Strip(SliceFrom(line, comment_start + 1))
        start_pos == LineOffset(lines, i) + comment_start + 1
    IN  IF comment_start # -1 /\ comment_text # <<>>
        THEN <<[text |-> comment_text, start |-> start_pos,
                end_ |-> start_pos + Len(comment_text)]>>
        ELSE <<>>

\* extract_comments_from_code(code_text)
extract_comments_from_code(code_text) ==
    LET lines == SplitLines(code_text)
    IN  Concat([k \in 1..Len(lines) |-> CommentOfLine(lines, k - 1)])

\* Lines 242-255: what one cell adds to texts_to_translate and text_refs,
\* as a list of [text, ref], ref = [type, cell_idx, start, end_].
CellUnits(cell, cell_idx) ==
    IF cell.cell_type = "markdown"
    THEN IF cell.source # <<>> /\ Strip(cell.source) # <<>>
         THEN <<[text |-> cell.source,
                 ref |-> [type |-> "markdown", cell_idx |-> cell_idx,
                          start |-> 0, end_ |-> 0]]>>
         ELSE <<>>
    ELSE IF cell.cell_type = "code" /\ cell.source # <<>>
    THEN LET comments == SelectSeq(extract_comments_from_code(cell.source),
                                   LAMBDA c : Strip(c.text) # <<>>)
         IN  [i \in 1..Len(comments) |->
                 [text |-> comments[i].text,
                  ref |-> [type |-> "comment", cell_idx |-> cell_idx,
                           start |-> comments[i].start, end_ |-> comments[i].end_]]]
    ELSE <<>>

\* Lines 241-255, cell_idx 0-based.
CollectUnits(cells) ==
    Concat([i \in 1..Len(cells) |-> CellUnits(cells[i], i - 1)])

\* Lines 277-288: one translation written into the cells.
ApplyOne(cells, ref, translated_text) ==
    LET i == ref.cell_idx + 1
        original_code == cells[i].source
    IN  IF ref.type = "markdown"
        THEN [cells EXCEPT ![i].source = translated_text]
        ELSE [cells EXCEPT ![i].source =
                  Slice(original_code, 0, ref.start) \o translated_text
                  \o SliceFrom(original_code, ref.end_)]

\* Lines 276-288: for ..., translated_text in zip(text_refs, translated_texts),
\* from the k-th pair on.
RECURSIVE ApplyFrom(_, _, _, _)
ApplyFrom(cells, refs, translated, k) ==
    IF k > ZipLen(refs, translated) THEN cells
    ELSE ApplyFrom(ApplyOne(cells, refs[k], translated[k]), refs, translated, k + 1)

ApplyTranslations(cells, refs, translated) == ApplyFrom(cells, refs, translated, 1)

(***************************************************************************)
(* convert_ppt_to_pptx.                                                    *)
(***************************************************************************)
\* What the soffice run can do: the command is not installed
\* (FileNotFoundError), runs past 120 s (TimeoutExpired), exits non-zero,
\* exits 0 leaving no .pptx, leaves <stem>.pptx, or leaves a .pptx that
\* only the glob finds.
ConvOutcomes ==
    {"tool_missing", "timeout", "nonzero_exit", "no_output",
     "converted", "converted_other_name"}

ConvFailures == {"tool_missing", "timeout", "nonzero_exit", "no_output"}

\* convert_ppt_to_pptx(ppt_path) when the soffice run does `outcome`.
ConvertTrustingExitCode(outcome) ==
    IF outcome \in {"tool_missing", "timeout", "nonzero_exit"}
    THEN [raised |-> TRUE, suffix |-> ".ppt"]
    ELSE [raised |-> FALSE, suffix |-> ".pptx"]
convert_ppt_to_pptx(outcome) ==
    IF outcome \in {"tool_missing", "timeout"}
    THEN [raised |-> TRUE, suffix |-> ".ppt"]        \* subprocess.run raised
    ELSE IF outcome = "nonzero_exit"
    THEN [raised |-> TRUE, suffix |-> ".ppt"]        \* RuntimeError(stderr)
    ELSE IF outcome = "converted"
    THEN [raised |-> FALSE, suffix |-> ".pptx"]      \* return conv
    ELSE IF outcome = "converted_other_name"
    THEN [raised |-> FALSE, suffix |-> ".pptx"]      \* return candidates[0]
    ELSE [raised |-> TRUE, suffix |-> ".ppt"]        \* FileNotFoundError

\* Where the loop of range(0, total, BATCH_SIZE) goes first, and after index s.
LoopEntry(total, body, after) == IF 0 < total THEN body ELSE after
AfterBatch(s, total, body, after) == IF NextStart(s) < total THEN body ELSE after

\* total_runs == 0, total_texts == 0
NothingDetectedNever(total) == total < 0
NothingDetected(total) == total = 0

(***************************************************************************)
(* The documents uploaded.                                                 *)
(***************************************************************************)
\* A word over {a, b} that names k: distinct for distinct k >= 1.
RECURSIVE Word(_)
Word(k) ==
    IF k = 0 THEN <<>>
    ELSE Word(k \div 2) \o <<IF k % 2 = 0 THEN "a" ELSE "b">>

R(id) == [id |-> id, text |-> Word(id)]
Sp(id) == [id |-> id, text |-> <<" ">>]
Em(id) == [id |-> id, text |-> <<>>]

Picture ==
    [kind |-> "picture", shapes |-> <<>>, has_table |-> FALSE, raises |-> 0,
     rows |-> <<>>, has_text_frame |-> FALSE, text_frame |-> <<>>]

TextBox(b) ==
    [Picture EXCEPT !.kind = "autoshape", !.has_text_frame = TRUE,
                    !.text_frame = << <<R(b + 1), Sp(b + 2)>>, <<Em(b + 3), R(b + 4)>> >>]

SpacerBox(b) ==
    [Picture EXCEPT !.kind = "autoshape", !.has_text_frame = TRUE,
                    !.text_frame = << <<Sp(b + 1)>> >>]

Cell(id) == [has_text_frame |-> TRUE, text_frame |-> << <<R(id)>> >>]
NoFrameCell == [has_text_frame |-> FALSE, text_frame |-> <<>>]

Table(b, raises, own) ==
    [Picture EXCEPT !.kind = "graphic_frame", !.has_table = TRUE, !.raises = raises,
                    !.rows = << <<Cell(b + 1), Cell(b + 2)>>, <<NoFrameCell, Cell(b + 3)>> >>,
                    !.has_text_frame = own,
                    !.text_frame = IF own THEN << <<R(b + 4)>> >> ELSE <<>>]

Group(b) ==
    [Picture EXCEPT !.kind = "group", !.shapes = <<TextBox(b), Table(b + 4, 0, FALSE)>>]

NestedGroup(b) ==
    [Picture EXCEPT !.kind = "group", !.shapes = <<Picture, Group(b)>>]

\* The shape lists a slide may hold, its run ids starting after b.
ShapeLists(b) ==
    << <<>>, <<TextBox(b)>>, <<Picture>>, <<SpacerBox(b)>>,
       <<Table(b, 0, FALSE)>>, <<Table(b, 0, TRUE)>>, <<Table(b, 1, TRUE)>>,
       <<Table(b, 3, TRUE)>>,
       <<Table(b, 3, FALSE)>>, <<NestedGroup(b)>>,
       <<TextBox(b), Table(b + 4, 0, FALSE)>> >>

\* The shape lists a notes page may hold; the first stands for no notes page.
NotesLists(b) ==
    << <<>>, <<TextBox(b)>>, <<Group(b)>>, <<SpacerBox(b)>>, <<Table(b, 0, FALSE)>> >>

SlideOf(b, s, n) ==
    [shapes |-> ShapeLists(b)[s], has_notes_slide |-> n > 1,
     notes_shapes |-> NotesLists(b + 50)[n]]

FamilyDecks ==
    {[i \in 1..k |-> SlideOf(100 * i, s, n)] :
        k \in 1..MaxSlides, s \in 1..Len(ShapeLists(0)), n \in 1..Len(NotesLists(0))}

\* One slide, one text box, one paragraph of n runs.
FlatDeck(n) ==
    << [shapes |-> <<[Picture EXCEPT !.kind = "autoshape", !.has_text_frame = TRUE,
                                      !.text_frame = <<[i \in 1..n |-> R(i)]>>]>>,
        has_notes_slide |-> FALSE, notes_shapes |-> <<>>] >>

DeckUploads ==
    {[suffix |-> x, slides |-> d, cells |-> <<>>] :
        x \in {".pptx", ".ppt"}, d \in FamilyDecks}
    \cup {[suffix |-> ".pptx", slides |-> FlatDeck(n), cells |-> <<>>] : n \in 0..MaxFlat}

Alphabet == {"a", " ", "#", "\n"}

Sources == UNION {[1..k -> Alphabet] : k \in 0..MaxSrcLen}

SampleSources ==
    {<<>>, <<" ", "\n">>, <<"b", "a">>, <<"#", " ", "a">>,
     <<"a", " ", "#", "a", "\n", "#", "b", "#">>,
     <<"a", " ", "#", " ", "a", "\n", "b", " ", "#", " ", "b">>}

SampleCells ==
    {[cell_type |-> t, source |-> x] :
        t \in {"markdown", "code", "raw"}, x \in SampleSources}

\* n markdown cells.
FlatNotebook(n) == [i \in 1..n |-> [cell_type |-> "markdown", source |-> Word(i)]]

NotebookUploads ==
    {[suffix |-> ".ipynb", slides |-> <<>>, cells |-> c] :
        c \in {<<[cell_type |-> "code", source |-> x]>> : x \in Sources}
              \cup UNION {[1..k -> SampleCells] : k \in 0..MaxCells}
              \cup {FlatNotebook(n) : n \in 0..MaxFlat}}

(***************************************************************************)
(* The script.                                                             *)
(***************************************************************************)
Init ==
    /\ upload \in DeckUploads \cup NotebookUploads
    /\ page = IF upload.suffix = ".ipynb" THEN "Jupyter Notebook" ELSE "PowerPoint"
    /\ has_key \in BOOLEAN
    /\ include_notes \in (IF upload.suffix = ".ipynb" THEN {TRUE} ELSE BOOLEAN)
    /\ pc = "main"
    /\ in_suffix = upload.suffix
    /\ conv = "not_run"
    /\ prs = <<>>
    /\ run_text = <<>>
    /\ run_refs = <<>>
    /\ notebook = <<>>
    /\ texts_to_translate = <<>>
    /\ text_refs = <<>>
    /\ translated_texts = <<>>
    /\ start = 0
    /\ calls = <<>>
    /\ out_file = "none"
    /\ ui = <<>>

\* Lines 336-352: the key test, the scratch copy, the dispatch on the page.
Main ==
    /\ pc = "main"
    /\ IF ~has_key
       THEN /\ ui' = Append(ui, "error_no_api_key")
            /\ pc' = "stopped"
       ELSE /\ ui' = ui
            /\ pc' = IF page = "PowerPoint" THEN "ppt_convert" ELSE "nb_load"
    /\ UNCHANGED <<page, has_key, upload, include_notes, in_suffix, conv, prs,
                   run_text, run_refs, notebook, texts_to_translate, text_refs,
                   translated_texts, start, calls, out_file>>

\* Lines 111-118: a .ppt is converted; a failure is shown and the script stops.
ConvertStep ==
    /\ pc = "ppt_convert"
    /\ IF in_suffix = ".ppt"
       THEN \E outcome \in ConvOutcomes :
                LET r == convert_ppt_to_pptx(outcome)
                IN  /\ conv' = outcome
                    /\ IF r.raised
                       THEN /\ ui' = ui \o <<"info_converting", "error_conversion">>
                            /\ pc' = "stopped"
                            /\ in_suffix' = in_suffix
                       ELSE /\ ui' = ui \o <<"info_converting", "success_converted">>
                            /\ pc' = "ppt_load"
                            /\ in_suffix' = r.suffix
       ELSE /\ pc' = "ppt_load"
            /\ UNCHANGED <<conv, ui, in_suffix>>
    /\ UNCHANGED <<page, has_key, upload, include_notes, prs, run_text, run_refs,
                   notebook, texts_to_translate, text_refs, translated_texts,
                   start, calls, out_file>>

\* Line 121: Presentation(str(in_path)); an unreadable file raises.
LoadPresentation ==
    /\ pc = "ppt_load"
    /\ \E readable \in BOOLEAN :
           IF readable
           THEN /\ prs' = upload.slides
                /\ run_text' = LoadedText(upload.slides)
                /\ pc' = "ppt_collect"
           ELSE /\ pc' = "raised"
                /\ UNCHANGED <<prs, run_text>>
    /\ UNCHANGED <<page, has_key, upload, include_notes, in_suffix, conv, run_refs,
                   notebook, texts_to_translate, text_refs, translated_texts,
                   start, calls, out_file, ui>>

\* Lines 149-170.
CollectRuns ==
    /\ pc = "ppt_collect"
    /\ run_refs' = CollectRunRefs(prs, include_notes, run_text)
    /\ pc' = "ppt_check"
    /\ UNCHANGED <<page, has_key, upload, include_notes, in_suffix, conv, prs,
                   run_text, notebook, texts_to_translate, text_refs,
                   translated_texts, start, calls, out_file, ui>>

\* Lines 172-180.
CheckRuns ==
    /\ pc = "ppt_check"
    /\ IF NothingDetected(Len(run_refs))
       THEN /\ ui' = Append(ui, "warning_nothing_to_translate")
            /\ pc' = "stopped"
       ELSE /\ ui' = Append(ui, "segments")
            /\ pc' = LoopEntry(Len(run_refs), "ppt_translate", "ppt_save")
    /\ start' = 0
    /\ UNCHANGED <<page, has_key, upload, include_notes, in_suffix, conv, prs,
                   run_text, run_refs, notebook, texts_to_translate, text_refs,
                   translated_texts, calls, out_file>>


\* Lines 181-187: one batch of the loop.
TranslateBatchPptx ==
    /\ pc = "ppt_translate"
    /\ LET batch_refs == BatchOf(run_refs, start)
           batch_texts == [i \in 1..Len(batch_refs) |-> batch_refs[i].txt]
       IN  \E resp \in Responses(batch_texts) :
               LET r == deepl_translate_batch(batch_texts, resp)
               IN  /\ calls' = IF r.posted THEN Append(calls, Call(batch_texts, resp, r))
                               ELSE calls
                   /\ ui' = IF r.error # "none" THEN Append(ui, r.error) ELSE ui
                   /\ IF r.raised
                      THEN /\ pc' = "raised"
                           /\ UNCHANGED <<run_text, start>>
                      ELSE /\ run_text' = WriteRuns(run_text, batch_refs, r.value)
                           /\ start' = NextStart(start)
                           /\ pc' = AfterBatch(start, Len(run_refs), "ppt_translate", "ppt_save")
    /\ UNCHANGED <<page, has_key, upload, include_notes, in_suffix, conv, prs,
                   run_refs, notebook, texts_to_translate, text_refs,
                   translated_texts, out_file>>

\* Lines 189-201: prs.save and the download button.
SavePresentation ==
    /\ pc = "ppt_save"
    /\ out_file' = "written"
    /\ ui' = ui \o <<"success_done", "download_button">>
    /\ pc' = "done"
    /\ UNCHANGED <<page, has_key, upload, include_notes, in_suffix, conv, prs,
                   run_text, run_refs, notebook, texts_to_translate, text_refs,
                   translated_texts, start, calls>>

\* Lines 212-217: nbformat.read; a failure is shown and the script stops.
LoadNotebook ==
    /\ pc = "nb_load"
    /\ \E readable \in BOOLEAN :
           IF readable
           THEN /\ notebook' = upload.cells
                /\ ui' = ui
                /\ pc' = "nb_collect"
           ELSE /\ notebook' = notebook
                /\ ui' = Append(ui, "error_notebook_load")
                /\ pc' = "stopped"
    /\ UNCHANGED <<page, has_key, upload, include_notes, in_suffix, conv, prs,
                   run_text, run_refs, texts_to_translate, text_refs,
                   translated_texts, start, calls, out_file>>

\* Lines 220-255.
CollectTexts ==
    /\ pc = "nb_collect"
    /\ LET units == CollectUnits(notebook)
       IN  /\ texts_to_translate' = [i \in 1..Len(units) |-> units[i].text]
           /\ text_refs' = [i \in 1..Len(units) |-> units[i].ref]
    /\ pc' = "nb_check"
    /\ UNCHANGED <<page, has_key, upload, include_notes, in_suffix, conv, prs,
                   run_text, run_refs, notebook, translated_texts, start, calls,
                   out_file, ui>>

\* Lines 257-266.
CheckTexts ==
    /\ pc = "nb_check"
    /\ IF NothingDetected(Len(texts_to_translate))
       THEN /\ ui' = Append(ui, "warning_nothing_to_translate")
            /\ pc' = "stopped"
       ELSE /\ ui' = Append(ui, "segments")
            /\ pc' = LoopEntry(Len(texts_to_translate), "nb_translate", "nb_apply")
    /\ start' = 0
    /\ translated_texts' = <<>>
    /\ UNCHANGED <<page, has_key, upload, include_notes, in_suffix, conv, prs,
                   run_text, run_refs, notebook, texts_to_translate, text_refs,
                   calls, out_file>>

\* Lines 268-273: one batch of the loop.
TranslateBatchNotebook ==
    /\ pc = "nb_translate"
    /\ LET batch_texts == BatchOf(texts_to_translate, start)
       IN  \E resp \in Responses(batch_texts) :
               LET r == deepl_translate_batch(batch_texts, resp)
               IN  /\ calls' = IF r.posted THEN Append(calls, Call(batch_texts, resp, r))
                               ELSE calls
                   /\ ui' = IF r.error # "none" THEN Append(ui, r.error) ELSE ui
                   /\ IF r.raised
                      THEN /\ pc' = "raised"
                           /\ UNCHANGED <<translated_texts, start>>
                      ELSE /\ translated_texts' = translated_texts \o r.value
                           /\ start' = NextStart(start)
                           /\ pc' = AfterBatch(start, Len(texts_to_translate),
                                               "nb_translate", "nb_apply")
    /\ UNCHANGED <<page, has_key, upload, include_notes, in_suffix, conv, prs,
                   run_text, run_refs, notebook, texts_to_translate, text_refs,
                   out_file>>

\* Lines 275-288.
ApplyToNotebook ==
    /\ pc = "nb_apply"
    /\ notebook' = ApplyTranslations(notebook, text_refs, translated_texts)
    /\ pc' = "nb_save"
    /\ UNCHANGED <<page, has_key, upload, include_notes, in_suffix, conv, prs,
                   run_text, run_refs, texts_to_translate, text_refs,
                   translated_texts, start, calls, out_file, ui>>

\* Lines 290-308: nbformat.write into the opened file, and the download
\* button; a failure is shown and the script stops.
SaveNotebook ==
    /\ pc = "nb_save"
    /\ \E written \in BOOLEAN :
           IF written
           THEN /\ out_file' = "written"
                /\ ui' = ui \o <<"success_done", "download_button">>
                /\ pc' = "done"
           ELSE /\ out_file' = "incomplete"
                /\ ui' = Append(ui, "error_notebook_save")
                /\ pc' = "stopped"
    /\ UNCHANGED <<page, has_key, upload, include_notes, in_suffix, conv, prs,
                   run_text, run_refs, notebook, texts_to_translate, text_refs,
                   translated_texts, start, calls>>

Next ==
    \/ Main
    \/ ConvertStep
    \/ LoadPresentation
    \/ CollectRuns
    \/ CheckRuns
    \/ TranslateBatchPptx
    \/ SavePresentation
    \/ LoadNotebook
    \/ CollectTexts
    \/ CheckTexts
    \/ TranslateBatchNotebook
    \/ ApplyToNotebook
    \/ SaveNotebook

Spec == Init /\ [][Next]_vars

(***************************************************************************)
(* Vocabulary of the properties.                                           *)
(***************************************************************************)
Shown(msg) == \E i \in 1..Len(ui) : ui[i] = msg

\* The original texts of the collected units, in order.
UnitTexts ==
    IF page = "PowerPoint" THEN [i \in 1..Len(run_refs) |-> run_refs[i].txt]
    ELSE texts_to_translate

\* The emptiness test has been passed.
Checked == Shown("segments") \/ Shown("warning_nothing_to_translate")

\* The batch loop has run to its end.
LoopDone == pc \in {"ppt_save", "nb_apply", "nb_save", "done"}

\* Every translation has been written back into the document in memory.
WrittenBack == pc \in {"ppt_save", "nb_save", "done"}

\* The texts posted so far, and the texts returned so far, call after call.
Sent == Concat([i \in 1..Len(calls) |-> calls[i].texts])
Returned == Concat([i \in 1..Len(calls) |-> calls[i].value])

CeilDiv(n, d) == (n + d - 1) \div d

\* src with every span [start, end_) replaced by its text, spans[1..n] in
\* ascending order, every offset read against src itself.
RECURSIVE SpliceAll(_, _, _)
SpliceAll(src, spans, n) ==
    IF n = 0 THEN src
    ELSE SpliceAll(Slice(src, 0, spans[n].start) \o spans[n].text
                   \o SliceFrom(src, spans[n].end_), spans, n - 1)

\* The spans recorded for the cell at 0-based index c, each with the
\* translation that `translated` pairs with it.
SpansOfCell(c, translated) ==
    LET idx == SelectSeq([i \in 1..ZipLen(text_refs, translated) |-> i],
                         LAMBDA i : text_refs[i].cell_idx = c)
    IN  [k \in 1..Len(idx) |->
            [start |-> text_refs[idx[k]].start, end_ |-> text_refs[idx[k]].end_,
             text |-> translated[idx[k]]]]

(***************************************************************************)
(* C1.  Round-trip order: when every provider call returned as many        *)
(* translations as it was sent, then once the translations are written     *)
(* back, translation i sits in exactly the unit that produced original     *)
(* text i: each collected run reads its own translation and every other    *)
(* run is untouched; each collected markdown cell reads its own            *)
(* translation; each code cell is its original source with the span of     *)
(* every collected comment holding that comment's translation; every other *)
(* cell is untouched.                                                      *)
(***************************************************************************)
EveryCallAnswered ==
    \A i \in 1..Len(calls) :
        ~calls[i].raised /\ Len(calls[i].value) = Len(calls[i].texts)

RunsHoldTheirTranslation ==
    \A id \in DOMAIN run_text :
        IF \E i \in 1..Len(run_refs) : run_refs[i].run = id
        THEN \A i \in 1..Len(run_refs) : run_refs[i].run = id => run_text[id] = Returned[i]
        ELSE run_text[id] = LoadedText(prs)[id]

CellsHoldTheirTranslation ==
    \A k \in 1..Len(notebook) :
        LET spans == SpansOfCell(k - 1, Returned)
        IN  notebook[k].source =
                IF spans = <<>> THEN upload.cells[k].source
                ELSE IF notebook[k].cell_type = "markdown" THEN spans[1].text
                ELSE SpliceAll(upload.cells[k].source, spans, Len(spans))

RoundTripOrder ==
    (WrittenBack /\ EveryCallAnswered) =>
        IF page = "PowerPoint" THEN RunsHoldTheirTranslation
        ELSE CellsHoldTheirTranslation

\* The slide path alone keeps the order.
RoundTripOrderOfRuns ==
    (WrittenBack /\ EveryCallAnswered /\ page = "PowerPoint") => RunsHoldTheirTranslation

(***************************************************************************)
(* C2.  Batching boundary: every request carries between 1 and 45 texts,   *)
(* every request but the latest carries exactly 45, the requests posted so *)
(* far are, concatenated, a prefix of the collected units in their order,  *)
(* and once the loop has run to its end there have been ceil(n / 45)       *)
(* requests that together are exactly the n collected units.               *)
(***************************************************************************)
BatchingBoundary ==
    /\ \A i \in 1..Len(calls) :
           /\ Len(calls[i].texts) >= 1
           /\ Len(calls[i].texts) <= BATCH_SIZE
           /\ i < Len(calls) => Len(calls[i].texts) = BATCH_SIZE
    /\ Sent = Slice(UnitTexts, 0, Len(Sent))
    /\ LoopDone => /\ Len(calls) = CeilDiv(Len(UnitTexts), BATCH_SIZE)
                   /\ Sent = UnitTexts

\* 46 units: two requests, of 45 and of 1.
BatchingBoundaryWitness ==
    /\ pc = "done"
    /\ Len(UnitTexts) = BATCH_SIZE + 1
    /\ Len(calls) = 2
    /\ Len(calls[1].texts) = BATCH_SIZE
    /\ Len(calls[2].texts) = 1

(***************************************************************************)
(* C3.  Comment-span offsets: for every comment collected from a code      *)
(* cell, the slice [start, end) of the cell's original source is the       *)
(* comment text.                                                           *)
(***************************************************************************)
CommentSpanCoversText ==
    \A i \in 1..Len(text_refs) :
        text_refs[i].type = "comment" =>
            Slice(upload.cells[text_refs[i].cell_idx + 1].source,
                  text_refs[i].start, text_refs[i].end_) = texts_to_translate[i]

(***************************************************************************)
(* C4.  Comment write-back: once the translations are applied, every code  *)
(* cell is its pre-translation source with each recorded [start, end)      *)
(* replaced by the translation paired with it, every offset read against   *)
(* the pre-translation source.                                             *)
(***************************************************************************)
CommentWriteBackKeepsCode ==
    (page = "Jupyter Notebook" /\ WrittenBack) =>
        \A k \in 1..Len(notebook) :
            notebook[k].cell_type = "code" =>
                LET spans == SpansOfCell(k - 1, translated_texts)
                IN  notebook[k].source =
                        SpliceAll(upload.cells[k].source, spans, Len(spans))

(***************************************************************************)
(* C5.  All-or-nothing on provider failure: a request the service answers  *)
(* with an error status, or that fails in transport, is the last request   *)
(* ever posted (no later batch, no retry), the script ends on the raised   *)
(* exception, and no output file is written or offered for download.       *)
(***************************************************************************)
AllOrNothingOnFailure ==
    \A i \in 1..Len(calls) :
        calls[i].kind # "ok" =>
            /\ i = Len(calls)
            /\ pc = "raised"
            /\ out_file = "none"
            /\ ~Shown("download_button")
            /\ ~Shown("success_done")

\* The second of three batches fails.
AllOrNothingWitness ==
    /\ Len(UnitTexts) > 2 * BATCH_SIZE
    /\ Len(calls) = 2
    /\ calls[1].kind = "ok"
    /\ calls[2].kind = "http_error"
    /\ pc = "raised"

(***************************************************************************)
(* C6.  Length contract of the client: every call of deepl_translate_batch *)
(* that did not raise returned as many strings as it was given.            *)
(***************************************************************************)
ClientKeepsLength ==
    \A i \in 1..Len(calls) :
        ~calls[i].raised => Len(calls[i].value) = Len(calls[i].texts)

(***************************************************************************)
(* C7.  Empty document: when the collection finds no unit, the script      *)
(* stops on the "nothing to translate" warning, having posted no request,  *)
(* written no output file and shown no error.                              *)
(***************************************************************************)
EmptyDocumentStops ==
    (Checked /\ Len(UnitTexts) = 0) =>
        /\ pc = "stopped"
        /\ ui[Len(ui)] = "warning_nothing_to_translate"
        /\ calls = <<>>
        /\ out_file = "none"
        /\ \A i \in 1..Len(ui) :
               ui[i] \in {"warning_nothing_to_translate", "info_converting",
                          "success_converted"}

\* A deck whose only runs are blank, and a notebook whose cells hold no
\* text, both end on the warning.
EmptyDocumentWitness ==
    /\ Checked
    /\ Len(UnitTexts) = 0
    /\ pc = "stopped"
    /\ \/ page = "PowerPoint" /\ RunsOfDeck(prs) # <<>>
       \/ page = "Jupyter Notebook" /\ Len(notebook) = MaxCells

(***************************************************************************)
(* C8.  Unit count and whitespace filtering: the collected units are, in   *)
(* order, exactly the runs whose text is non-blank over every shape of     *)
(* every slide (through groups and table cells) and, with notes enabled,   *)
(* over every shape of the slide's notes page under the same rule; for a   *)
(* notebook there is one unit per non-blank markdown body and one per      *)
(* non-blank comment; no unit is blank.                                    *)
(***************************************************************************)
\* The traversal rule: a group gives its children's frames, a table its
\* cells' frames, any other shape its own frame.
RECURSIVE RuleFrames(_)
RuleFrames(shape) ==
    IF shape.kind = "group"
    THEN Concat([i \in 1..Len(shape.shapes) |-> RuleFrames(shape.shapes[i])])
    ELSE IF shape.has_table THEN CellFrames(CellsOf(shape))
    ELSE OwnFrame(shape)

RuleRunsOfShapes(shapes) ==
    RunsOfFrames(Concat([i \in 1..Len(shapes) |-> RuleFrames(shapes[i])]))

RuleRuns(slides, notes) ==
    Concat([i \in 1..Len(slides) |->
               RuleRunsOfShapes(slides[i].shapes)
               \o (IF notes /\ slides[i].has_notes_slide
                   THEN RuleRunsOfShapes(slides[i].notes_shapes) ELSE <<>>)])

NonBlankIds(runs) ==
    LET kept == SelectSeq(runs, LAMBDA r : \E j \in 1..Len(r.text) : ~IsSpace(r.text[j]))
    IN  [i \in 1..Len(kept) |-> kept[i].id]

\* The lines of a source that hold a non-blank character after their first '#'.
CommentLines(source) ==
    LET lines == SplitLines(source)
    IN  {i \in 1..Len(lines) :
            \E j \in 1..Len(lines[i]) :
                /\ lines[i][j] = "#"
                /\ \A m \in 1..(j - 1) : lines[i][m] # "#"
                /\ \E m \in (j + 1)..Len(lines[i]) : ~IsSpace(lines[i][m])}

RECURSIVE SumOver(_)
SumOver(ns) == IF ns = <<>> THEN 0 ELSE Head(ns) + SumOver(Tail(ns))

ExpectedNotebookUnits(cells) ==
    SumOver([i \in 1..Len(cells) |->
        IF cells[i].cell_type = "markdown"
        THEN IF \E j \in 1..Len(cells[i].source) : ~IsSpace(cells[i].source[j])
             THEN 1 ELSE 0
        ELSE IF cells[i].cell_type = "code" THEN Cardinality(CommentLines(cells[i].source))
        ELSE 0])

UnitsAreTheNonBlankFragments ==
    /\ pc \in {"ppt_check", "ppt_translate", "ppt_save"} =>
           [i \in 1..Len(run_refs) |-> run_refs[i].run]
               = NonBlankIds(RuleRuns(prs, include_notes))
    /\ pc \in {"nb_check", "nb_translate", "nb_apply"} =>
           Len(texts_to_translate) = ExpectedNotebookUnits(upload.cells)
    /\ \A i \in 1..Len(UnitTexts) : Strip(UnitTexts[i]) # <<>>

(***************************************************************************)
(* C9.  Table against plain text: no collected run comes from the own      *)
(* text container of a shape of a slide that is a table.                   *)
(***************************************************************************)
\* The table shapes among `shapes`, through groups.
RECURSIVE TablesIn(_)
TablesIn(shapes) ==
    Concat([i \in 1..Len(shapes) |->
        IF shapes[i].kind = "group" THEN TablesIn(shapes[i].shapes)
        ELSE IF shapes[i].has_table THEN <<shapes[i]>> ELSE <<>>])

OwnRunsOfTables(slides) ==
    LET tables == Concat([i \in 1..Len(slides) |-> TablesIn(slides[i].shapes)])
        runs == RunsOfFrames(Concat([i \in 1..Len(tables) |-> OwnFrame(tables[i])]))
    IN  {runs[i].id : i \in 1..Len(runs)}

ConversionFailureIsFatal ==
    conv \in ConvFailures =>
        /\ pc = "stopped"
        /\ ui[Len(ui)] = "error_conversion"
        /\ prs = <<>>
        /\ run_refs = <<>>
        /\ calls = <<>>
        /\ out_file = "none"

\* soffice exits 0 and leaves no .pptx.
ConversionFailureWitness ==
    /\ upload.suffix = ".ppt"
    /\ conv = "no_output"
    /\ pc = "stopped"
    /\ Shown("error_conversion")

====
